---- MODULE Spec2Model ----
(***************************************************************************)
(* Model of GOlang/function_example.go: a driver (main) that owns one int  *)
(* variable `count`, passes its address to incrementValue and its value to *)
(* incrementValueNoPtr, and prints the address and value of `count` before *)
(* and after each call.  One action per source statement; the program      *)
(* counter names the line about to be executed (m = main, iv =             *)
(* incrementValue, np = incrementValueNoPtr).                              *)
(*                                                                         *)
(* Memory is a function from the addresses of live variables to their      *)
(* values.  The address a variable gets is chosen by the Go runtime and is *)
(* modelled as a nondeterministic choice among the free addresses.         *)
(* Values stay far below the limit of Go's int, so x + 1 is Go's x++.      *)
(***************************************************************************)
EXTENDS Integers, Sequences, FiniteSets, TLC

VARIABLES
    pc,         \* the statement about to be executed
    stack,      \* return positions of the calls in progress
    mem,        \* address -> value, for every live int variable
    countAddr,  \* &count: the address of the caller's variable
    valPtr,     \* incrementValue's parameter valPtr (Null outside the call)
    valAddr,    \* &val: the address of incrementValueNoPtr's parameter
    out,        \* standard output: one record per Println / Printf
    exit,       \* "running", "0" (main returned) or "2" (run-time panic)
    v0,         \* history: the value the caller's variable was created with
    pre,        \* history: the caller's variable at the latest call
    refCalls,   \* history: number of calls of incrementValue
    copyCalls   \* history: number of calls of incrementValueNoPtr

vars == <<pc, stack, mem, countAddr, valPtr, valAddr, out, exit,
          v0, pre, refCalls, copyCalls>>

\* Number of distinct addresses the runtime may hand out.
NumAddrs == 4
\* Largest total number of calls made by the test harness.
MaxCalls == 3
\* The harness draws the initial value from -MaxAbs..MaxAbs and 10, 11.
MaxAbs == 2

\* count := 10
InitialCount == 10
\* The nil pointer.
Null == 0
Addrs == 1..NumAddrs

\* One line of output: a fixed text, a %p argument or a %d argument.
OutText(line) == [line |-> line, kind |-> "text", arg |-> 0]
OutPtr(line, a) == [line |-> line, kind |-> "ptr", arg |-> a]
OutInt(line, v) == [line |-> line, kind |-> "int", arg |-> v]

\* A statement that only prints.
PrintStep(from, to, rec) ==
    /\ pc = from
    /\ pc' = to
    /\ out' = Append(out, rec)
    /\ UNCHANGED <<stack, mem, countAddr, valPtr, valAddr, exit,
                   v0, pre, refCalls, copyCalls>>

\* Dereferencing a nil pointer is a run-time panic: the process exits with 2.
Panic ==
    /\ pc' = "panic"
    /\ exit' = "2"
    /\ UNCHANGED <<stack, mem, countAddr, valPtr, valAddr, out,
                   v0, pre, refCalls, copyCalls>>

\* A statement of incrementValue that evaluates *valPtr and prints.
DerefPrintStep(from, to, rec) ==
    /\ pc = from
    /\ IF valPtr \in DOMAIN mem
          THEN /\ pc' = to
               /\ out' = Append(out, rec)
               /\ UNCHANGED <<stack, mem, countAddr, valPtr, valAddr, exit,
                              v0, pre, refCalls, copyCalls>>
          ELSE Panic

-----------------------------------------------------------------------------
(* main, lines 34-59 *)

Main36 ==
    /\ pc = "m36"
    /\ \E a \in Addrs \ DOMAIN mem :
          /\ countAddr' = a
          /\ mem' = mem @@ (a :> InitialCount)
    /\ v0' = InitialCount
    /\ pc' = "m39"
    /\ UNCHANGED <<stack, valPtr, valAddr, out, exit, pre, refCalls, copyCalls>>

Main39 == PrintStep("m39", "m40", OutText(39))
Main40 == PrintStep("m40", "m41", OutText(40))
Main41 == PrintStep("m41", "m42", OutPtr(41, countAddr))
Main42 == PrintStep("m42", "m45", OutInt(42, mem[countAddr]))

\* Mutant: the call passes a nil pointer instead of &count.
Main45_NilArg ==
    /\ pc = "m45"
    /\ valPtr' = Null
    /\ stack' = Append(stack, "m48")
    /\ pre' = mem[countAddr]
    /\ refCalls' = refCalls + 1
    /\ pc' = "iv8"
    /\ UNCHANGED <<mem, countAddr, valAddr, out, exit, v0, copyCalls>>

\* Mutant: the call returns past the report that follows it.
Main45_SkipReport ==
    /\ pc = "m45"
    /\ valPtr' = countAddr
    /\ stack' = Append(stack, "m53")
    /\ pre' = mem[countAddr]
    /\ refCalls' = refCalls + 1
    /\ pc' = "iv8"
    /\ UNCHANGED <<mem, countAddr, valAddr, out, exit, v0, copyCalls>>

Main45 ==
    /\ pc = "m45"
    /\ valPtr' = countAddr
    /\ stack' = Append(stack, "m48")
    /\ pre' = mem[countAddr]
    /\ refCalls' = refCalls + 1
    /\ pc' = "iv8"
    /\ UNCHANGED <<mem, countAddr, valAddr, out, exit, v0, copyCalls>>

Main48 == PrintStep("m48", "m49", OutText(48))
Main49 == PrintStep("m49", "m50", OutPtr(49, countAddr))
\* Mutant: the report prints the value read before the call.
Main50_Stale == PrintStep("m50", "m53", OutInt(50, pre))

Main50 == PrintStep("m50", "m53", OutInt(50, mem[countAddr]))

\* Mutant: the call moves count to a new address and hands the old one to val.
Main53_MoveCount ==
    /\ pc = "m53"
    /\ \E b \in Addrs \ DOMAIN mem :
          /\ valAddr' = countAddr
          /\ countAddr' = b
          /\ mem' = mem @@ (b :> mem[countAddr])
    /\ stack' = Append(stack, "m56")
    /\ pre' = mem[countAddr]
    /\ copyCalls' = copyCalls + 1
    /\ pc' = "np24"
    /\ UNCHANGED <<valPtr, out, exit, v0, refCalls>>

\* Mutant: val is an alias of count instead of a copy.
Main53_Alias ==
    /\ pc = "m53"
    /\ valAddr' = countAddr
    /\ stack' = Append(stack, "m56")
    /\ pre' = mem[countAddr]
    /\ copyCalls' = copyCalls + 1
    /\ pc' = "np24"
    /\ UNCHANGED <<mem, countAddr, valPtr, out, exit, v0, refCalls>>

Main53 ==
    /\ pc = "m53"
    /\ \E b \in Addrs \ DOMAIN mem :
          /\ valAddr' = b
          /\ mem' = mem @@ (b :> mem[countAddr])
    /\ stack' = Append(stack, "m56")
    /\ pre' = mem[countAddr]
    /\ copyCalls' = copyCalls + 1
    /\ pc' = "np24"
    /\ UNCHANGED <<countAddr, valPtr, out, exit, v0, refCalls>>

Main56 == PrintStep("m56", "m57", OutText(56))
Main57 == PrintStep("m57", "m58", OutPtr(57, countAddr))
Main58 == PrintStep("m58", "m59", OutInt(58, mem[countAddr]))

\* main returns: the process exits with status 0.  Memory is left as it is,
\* so that the final value of count can be read in the last state.
Main59 ==
    /\ pc = "m59"
    /\ pc' = "done"
    /\ exit' = "0"
    /\ UNCHANGED <<stack, mem, countAddr, valPtr, valAddr, out,
                   v0, pre, refCalls, copyCalls>>

-----------------------------------------------------------------------------
(* incrementValue, lines 7-18 *)

IncVal8 == PrintStep("iv8", "iv9", OutText(8))
IncVal9 == PrintStep("iv9", "iv10", OutPtr(9, valPtr))
IncVal10 == DerefPrintStep("iv10", "iv11", OutPtr(10, valPtr))
IncVal11 == DerefPrintStep("iv11", "iv13", OutInt(11, mem[valPtr]))

\* Mutant: the increment is applied to a local copy of *valPtr.
IncVal13_NoStore ==
    /\ pc = "iv13"
    /\ pc' = "iv15"
    /\ UNCHANGED <<stack, mem, countAddr, valPtr, valAddr, out, exit,
                   v0, pre, refCalls, copyCalls>>

\* Mutant: only the first call increments.
IncVal13_FirstCallOnly ==
    /\ pc = "iv13"
    /\ mem' = [mem EXCEPT ![valPtr] = IF refCalls = 1 THEN mem[valPtr] + 1
                                                     ELSE mem[valPtr]]
    /\ pc' = "iv15"
    /\ UNCHANGED <<stack, countAddr, valPtr, valAddr, out, exit,
                   v0, pre, refCalls, copyCalls>>

\* Mutant: the pointer is incremented, not the value it points to.
IncVal13_PtrArith ==
    /\ pc = "iv13"
    /\ valPtr' = valPtr + 1
    /\ pc' = "iv15"
    /\ UNCHANGED <<stack, mem, countAddr, valAddr, out, exit,
                   v0, pre, refCalls, copyCalls>>

IncVal13 ==
    /\ pc = "iv13"
    /\ IF valPtr \in DOMAIN mem
          THEN /\ mem' = [mem EXCEPT ![valPtr] = mem[valPtr] + 1]
               /\ pc' = "iv15"
               /\ UNCHANGED <<stack, countAddr, valPtr, valAddr, out, exit,
                              v0, pre, refCalls, copyCalls>>
          ELSE Panic

IncVal15 == DerefPrintStep("iv15", "iv16", OutInt(15, mem[valPtr]))
IncVal16 == PrintStep("iv16", "iv17", OutPtr(16, valPtr))
IncVal17 == DerefPrintStep("iv17", "iv18", OutPtr(17, valPtr))

IncVal18 ==
    /\ pc = "iv18"
    /\ pc' = stack[Len(stack)]
    /\ stack' = SubSeq(stack, 1, Len(stack) - 1)
    /\ valPtr' = Null
    /\ UNCHANGED <<mem, countAddr, valAddr, out, exit,
                   v0, pre, refCalls, copyCalls>>

-----------------------------------------------------------------------------
(* incrementValueNoPtr, lines 23-32 *)

NoPtr24 == PrintStep("np24", "np25", OutText(24))
NoPtr25 == PrintStep("np25", "np26", OutPtr(25, valAddr))
NoPtr26 == PrintStep("np26", "np28", OutInt(26, mem[valAddr]))

\* Mutant: the increment is written to the caller's variable.
NoPtr28_WriteThrough ==
    /\ pc = "np28"
    /\ mem' = [mem EXCEPT ![countAddr] = mem[countAddr] + 1]
    /\ pc' = "np30"
    /\ UNCHANGED <<stack, countAddr, valPtr, valAddr, out, exit,
                   v0, pre, refCalls, copyCalls>>

NoPtr28 ==
    /\ pc = "np28"
    /\ mem' = [mem EXCEPT ![valAddr] = mem[valAddr] + 1]
    /\ pc' = "np30"
    /\ UNCHANGED <<stack, countAddr, valPtr, valAddr, out, exit,
                   v0, pre, refCalls, copyCalls>>

NoPtr30 == PrintStep("np30", "np31", OutInt(30, mem[valAddr]))
NoPtr31 == PrintStep("np31", "np32", OutPtr(31, valAddr))

NoPtr32 ==
    /\ pc = "np32"
    /\ pc' = stack[Len(stack)]
    /\ stack' = SubSeq(stack, 1, Len(stack) - 1)
    /\ mem' = [a \in DOMAIN mem \ {valAddr} |-> mem[a]]
    /\ valAddr' = Null
    /\ UNCHANGED <<countAddr, valPtr, out, exit, v0, pre, refCalls, copyCalls>>

-----------------------------------------------------------------------------
(* The program *)

Init ==
    /\ pc = "m36"
    /\ stack = <<>>
    /\ mem = <<>>
    /\ countAddr = Null
    /\ valPtr = Null
    /\ valAddr = Null
    /\ out = <<>>
    /\ exit = "running"
    /\ v0 = 0
    /\ pre = 0
    /\ refCalls = 0
    /\ copyCalls = 0

MainStep ==
    \/ Main36 \/ Main39 \/ Main40 \/ Main41 \/ Main42 \/ Main45
    \/ Main48 \/ Main49 \/ Main50 \/ Main53
    \/ Main56 \/ Main57 \/ Main58 \/ Main59

IncValStep ==
    \/ IncVal8 \/ IncVal9 \/ IncVal10 \/ IncVal11 \/ IncVal13
    \/ IncVal15 \/ IncVal16 \/ IncVal17 \/ IncVal18

NoPtrStep ==
    \/ NoPtr24 \/ NoPtr25 \/ NoPtr26 \/ NoPtr28
    \/ NoPtr30 \/ NoPtr31 \/ NoPtr32

Next == MainStep \/ IncValStep \/ NoPtrStep

Spec == Init /\ [][Next]_vars

\* The Go scheduler keeps running the only goroutine until main returns.
LiveSpec == Init /\ [][Next]_vars /\ WF_vars(Next)

-----------------------------------------------------------------------------
(* The two functions called on arbitrary arguments: the caller's variable  *)
(* starts with any value of Inputs, and incrementValue(&count) and         *)
(* incrementValueNoPtr(count) are called in any order, MaxCalls times in   *)
(* all.  The functions' own statements are the actions above.              *)

Inputs == (-MaxAbs..MaxAbs) \cup {InitialCount, InitialCount + 1}

TestInit ==
    /\ pc = "idle"
    /\ stack = <<>>
    /\ \E a \in Addrs, v \in Inputs :
          /\ countAddr = a
          /\ mem = (a :> v)
          /\ v0 = v
          /\ pre = v
    /\ valPtr = Null
    /\ valAddr = Null
    /\ out = <<>>
    /\ exit = "running"
    /\ refCalls = 0
    /\ copyCalls = 0

\* incrementValue(&count)
TestCallRef ==
    /\ pc = "idle"
    /\ refCalls + copyCalls < MaxCalls
    /\ valPtr' = countAddr
    /\ stack' = Append(stack, "idle")
    /\ pre' = mem[countAddr]
    /\ refCalls' = refCalls + 1
    /\ pc' = "iv8"
    /\ UNCHANGED <<mem, countAddr, valAddr, out, exit, v0, copyCalls>>

\* incrementValueNoPtr(count)
TestCallCopy ==
    /\ pc = "idle"
    /\ refCalls + copyCalls < MaxCalls
    /\ \E b \in Addrs \ DOMAIN mem :
          /\ valAddr' = b
          /\ mem' = mem @@ (b :> mem[countAddr])
    /\ stack' = Append(stack, "idle")
    /\ pre' = mem[countAddr]
    /\ copyCalls' = copyCalls + 1
    /\ pc' = "np24"
    /\ UNCHANGED <<countAddr, valPtr, out, exit, v0, refCalls>>

TestNext == TestCallRef \/ TestCallCopy \/ IncValStep \/ NoPtrStep

TestSpec == TestInit /\ [][TestNext]_vars

-----------------------------------------------------------------------------
(* Properties *)

IncValPcs == {"iv8", "iv9", "iv10", "iv11", "iv13", "iv15", "iv16", "iv17", "iv18"}
NoPtrPcs == {"np24", "np25", "np26", "np28", "np30", "np31", "np32"}
AfterCopyPcs == {"m56", "m57", "m58", "m59", "done"}

\* The records of out printed by the given source lines, in order.
Printed(lines) == SelectSeq(out, LAMBDA r : r.line \in lines)

\* The value held by the caller's variable.
Cell == mem[countAddr]

\* C1: whatever value v the caller's variable holds when incrementValue is
\* called with its address, the variable holds v + 1 when the call is about
\* to return.
C1_IncrementValueAddsOne ==
    pc = "iv18" => /\ valPtr = countAddr
                   /\ Cell = pre + 1

C1_Witness ==
    /\ pc = "iv18"
    /\ pre = -MaxAbs
    /\ Cell = pre + 1

\* C2: no step of a call of incrementValueNoPtr (the call, the statements of
\* its body, the return) changes the caller's variable, which holds the value
\* it had at the call all through the call, however many calls are made.
C2_CopyLeavesCell ==
    /\ [](pc \in NoPtrPcs => Cell = pre)
    /\ [][(pc \in NoPtrPcs \/ pc' \in NoPtrPcs) => mem'[countAddr] = mem[countAddr]]_vars

C2_Witness ==
    /\ pc = "idle"
    /\ copyCalls = MaxCalls
    /\ v0 = InitialCount + 1
    /\ Cell = InitialCount + 1

\* C3: the driver reports 10 at line 42, 11 at line 50 and 11 at line 58, each
\* report is made by the time the driver is past it, and count holds 11 when
\* the run ends.
C3_DriverValues ==
    /\ \A i \in DOMAIN out :
          /\ out[i].line = 42 => out[i].arg = 10
          /\ out[i].line = 50 => out[i].arg = 11
          /\ out[i].line = 58 => out[i].arg = 11
    /\ pc = "done" => /\ Cell = 11
                      /\ Len(Printed({42})) = 1
                      /\ Len(Printed({50})) = 1
                      /\ Len(Printed({58})) = 1

C3_Witness ==
    /\ pc = "done"
    /\ Cell = 11
    /\ Printed({42, 50, 58}) = <<OutInt(42, 10), OutInt(50, 11), OutInt(58, 11)>>

\* C4: from its creation on, count occupies the same address: every address
\* the driver has reported (lines 41, 49, 57) is the address count was created
\* at and still has.
C4_SameAddress ==
    pc # "m36" =>
        /\ countAddr \in DOMAIN mem
        /\ \A i \in DOMAIN out :
              out[i].line \in {41, 49, 57} => out[i].arg = countAddr

C4_Witness ==
    /\ pc = "done"
    /\ Len(Printed({41, 49, 57})) = 3
    /\ \A i \in DOMAIN out :
          out[i].line \in {41, 49, 57} => out[i].arg = countAddr

\* C5: after k calls of incrementValue on the caller's variable, created with
\* v, the variable holds v + k whatever calls of incrementValueNoPtr were made
\* in between; so a second call does not leave it at v + 1.
C5_RefCallsAccumulate ==
    pc = "idle" => /\ Cell = v0 + refCalls
                   /\ refCalls >= 2 => Cell # v0 + 1

C5_Witness ==
    /\ pc = "idle"
    /\ refCalls = 2
    /\ copyCalls = 0
    /\ Cell = v0 + 2

\* C6: every run reaches the end of main with exit status 0, no run panics,
\* and the pointer incrementValue dereferences is the address of the live
\* variable count.
C6_TerminatesNormally ==
    /\ <>(pc = "done" /\ exit = "0")
    /\ [](pc # "panic" /\ exit # "2")
    /\ [](pc \in IncValPcs => valPtr # Null /\ valPtr = countAddr /\ valPtr \in DOMAIN mem)

C6_Witness ==
    /\ pc = "done"
    /\ exit = "0"
    /\ refCalls = 1
    /\ stack = <<>>

\* What the driver prints: three reports, each a label, the address of count
\* and the value of count (the first report has a second label line).
DriverLines == {39, 40, 41, 42, 48, 49, 50, 56, 57, 58}
DriverReports ==
    << <<39, "text">>, <<40, "text">>, <<41, "ptr">>, <<42, "int">>,
       <<48, "text">>, <<49, "ptr">>, <<50, "int">>,
       <<56, "text">>, <<57, "ptr">>, <<58, "int">> >>
Shape(s) == [i \in DOMAIN s |-> <<s[i].line, s[i].kind>>]
IsPrefix(s, t) == Len(s) =< Len(t) /\ s = SubSeq(t, 1, Len(s))
\* The number of reports made: an address followed by a value.
NumReports == Len(Printed({42, 50, 58}))

\* C7 (as amended): the driver makes three reports, after the creation of
\* count, after incrementValue and after incrementValueNoPtr; each is a label,
\* the address of count and the value of count, and each value printed is the
\* value count holds when it is printed.
C7_ThreeReports ==
    /\ [](IsPrefix(Shape(Printed(DriverLines)), DriverReports))
    /\ [](pc = "done" => Shape(Printed(DriverLines)) = DriverReports /\ NumReports = 3)
    /\ [][\A n \in {42, 50, 58} :
             (Len(out') = Len(out) + 1 /\ out'[Len(out')].line = n)
                 => /\ out'[Len(out')].kind = "int"
                    /\ out'[Len(out')].arg = mem[countAddr]
                    /\ out'[Len(out') - 1] = OutPtr(n - 1, countAddr)]_vars

C7_Witness ==
    /\ pc = "done"
    /\ NumReports = 3
    /\ Shape(Printed(DriverLines)) = DriverReports

\* C7 (as stated): a report is written at each of four checkpoints.
C7_FourReports ==
    pc = "done" => NumReports = 4

\* The lines printed by a run, in order.
RunLines ==
    <<39, 40, 41, 42, 8, 9, 10, 11, 15, 16, 17, 48, 49, 50,
      24, 25, 26, 30, 31, 56, 57, 58>>
\* For each statement of the program, whether it can execute now.
StatementEnabled ==
    << ENABLED Main36, ENABLED Main39, ENABLED Main40, ENABLED Main41,
       ENABLED Main42, ENABLED Main45, ENABLED Main48, ENABLED Main49,
       ENABLED Main50, ENABLED Main53, ENABLED Main56, ENABLED Main57,
       ENABLED Main58, ENABLED Main59,
       ENABLED IncVal8, ENABLED IncVal9, ENABLED IncVal10, ENABLED IncVal11,
       ENABLED IncVal13, ENABLED IncVal15, ENABLED IncVal16, ENABLED IncVal17,
       ENABLED IncVal18,
       ENABLED NoPtr24, ENABLED NoPtr25, ENABLED NoPtr26, ENABLED NoPtr28,
       ENABLED NoPtr30, ENABLED NoPtr31, ENABLED NoPtr32 >>
EnabledCount == Len(SelectSeq(StatementEnabled, LAMBDA b : b))

\* C8: the run is a single path: until main has returned exactly one statement
\* can execute (the only choice in a step is the address the runtime gives a
\* new variable), and then none; the lines printed are a prefix of the one
\* sequence report, incrementValue, report, incrementValueNoPtr, report; each
\* function is called at most once, incrementValueNoPtr only after
\* incrementValue has returned, and both have been called once at the end.
C8_SinglePath ==
    /\ pc # "done" => EnabledCount = 1
    /\ pc = "done" => EnabledCount = 0
    /\ pc = "m36" => mem = <<>> /\ out = <<>>
    /\ pc # "m36" => v0 = 10
    /\ IsPrefix([i \in DOMAIN out |-> out[i].line], RunLines)
    /\ refCalls =< 1 /\ copyCalls =< 1
    /\ copyCalls = 1 => refCalls = 1 /\ valPtr = Null
    /\ pc \in IncValPcs => stack = <<"m48">>
    /\ pc \in NoPtrPcs => stack = <<"m56">>
    /\ pc = "done" => /\ refCalls = 1 /\ copyCalls = 1 /\ stack = <<>>
                      /\ [i \in DOMAIN out |-> out[i].line] = RunLines

C8_Witness ==
    /\ pc = "done"
    /\ [i \in DOMAIN out |-> out[i].line] = RunLines
    /\ refCalls = 1
    /\ copyCalls = 1

\* C9: during incrementValueNoPtr(count) val is a second variable at an
\* address other than count's; it holds 11 up to the increment and 12 after
\* it, count holds 11 all along, and after the return val is gone and count
\* still holds 11.
C9_CopyIsSeparate ==
    /\ pc \in NoPtrPcs =>
          /\ valAddr # countAddr
          /\ DOMAIN mem = {countAddr, valAddr}
          /\ Cell = 11
          /\ pc \in {"np24", "np25", "np26", "np28"} => mem[valAddr] = 11
          /\ pc \in {"np30", "np31", "np32"} => mem[valAddr] = 12
          /\ \A i \in DOMAIN out : out[i].line \in {25, 31} => out[i].arg = valAddr
    /\ pc \in AfterCopyPcs =>
          /\ valAddr = Null
          /\ DOMAIN mem = {countAddr}
          /\ Cell = 11
          /\ Printed({26, 30}) = <<OutInt(26, 11), OutInt(30, 12)>>
          /\ \A i \in DOMAIN out : out[i].line \in {25, 31} => out[i].arg # countAddr

C9_Witness ==
    /\ pc = "np30"
    /\ valAddr # countAddr
    /\ mem[valAddr] = 12
    /\ Cell = 11

\* C10: all through a call of incrementValue, before and after the increment,
\* valPtr is the address of count that was passed in, and so is every pointer
\* the function has printed; the increment changes the value at that address.
C10_PointerUnchanged ==
    /\ pc \in IncValPcs =>
          /\ valPtr = countAddr
          /\ pc \in {"iv8", "iv9", "iv10", "iv11", "iv13"} => Cell = pre
          /\ pc \in {"iv15", "iv16", "iv17", "iv18"} => Cell = pre + 1
    /\ \A i \in DOMAIN out :
          out[i].line \in {9, 10, 16, 17} => out[i].arg = countAddr

C10_Witness ==
    /\ pc = "iv18"
    /\ valPtr = countAddr
    /\ Cell = pre + 1
    /\ Len(Printed({9, 10, 16, 17})) = 4

====
